---- MODULE Spec2Model ----
(***************************************************************************)
(* IagonAdapter (src/src/iagon/base.py): the nonce/sign/verify handshake,  *)
(* the session context manager, the response handler and the resource      *)
(* operations, run against a model of the remote storage service.          *)
(*                                                                         *)
(* Byte strings (file contents, response bodies) are records: Raw(s) is a  *)
(* body that is not JSON, Json(obj) a body that parses to the object obj.  *)
(* Identifiers, tokens, urls and header values are strings.                *)
(***************************************************************************)
EXTENDS Naturals, Sequences, FiniteSets, TLC

\* ------------------------------------------------------------------ bounds
MaxDirs == 2
MaxFiles == 1

\* ------------------------------------------------------------------ values
None == "<None>"

\* str(x) as an f-string formats it: None prints as the text None.
Fmt(x) == IF x = None THEN "None" ELSE x

Raw(s) == [kind |-> "raw", raw |-> s]
Json(obj) == [kind |-> "json", obj |-> obj]

\* The calls of IagonAdapter.session, all with the same seed phrase.
Sessions == {1, 2}
\* Adapter 0 is built by calling the constructor directly; adapter s > 0 is the
\* one session s yields.
AdapterIds == {0} \cup Sessions

TokenOf(n) == "t" \o ToString(n)
DirIdOf(n) == "d" \o ToString(n)
FileIdOf(n) == "f" \o ToString(n)
DirIds == {DirIdOf(n) : n \in 1 .. MaxDirs}
FileIds == {FileIdOf(n) : n \in 1 .. MaxFiles}

\* The inputs the callers draw from.
DirNames == {"X", "Y"}
FileNames == {"test.txt"}
Contents == {Raw("hello world!"), Raw("bye")}
Passwords == {"default", "pw"}
ForgedToken == "forged"
Seed == "seed"
DirArgs == DirIds \cup {None, "nodir"}
FileArgs == FileIds \cup {"nofile"}

\* An optional list argument: NoList is Python's None, List(p) the list p.
NoList == [isNone |-> TRUE]
List(p) == [isNone |-> FALSE, list |-> p]
PathArgs == {NoList, List(<<>>)} \cup {List(<<d>>) : d \in DirIds \cup {"nodir"}}
              \cup {List(<<d, e>>) : d \in DirIds, e \in DirIds}

\* upload's optional arguments (private, dir_id, region_id): the defaults, a
\* public file, and a file in a directory with a region given.
UploadOptions == {<<TRUE, None, None>>, <<FALSE, None, None>>}
                   \cup {<<TRUE, d, "eu">> : d \in DirIds}

\* ------------------------------------------------------- results of a call
NoExc == "NoExc"
Return(v) == [exc |-> NoExc, value |-> v]
Raise(kind, msg) == [exc |-> kind, value |-> msg]

\* requests.codes
codes == [ok |-> 200, bad |-> 400, unauthorized |-> 401, not_found |-> 404,
          conflict |-> 409]

\* ------------------------------------------------------- requests.Response
\* response.json()[field]: JSONDecodeError when the body is not JSON, KeyError
\* when the object has no such field.
JsonField(response, field) ==
    IF response.body.kind # "json" THEN Raise("JSONDecodeError", "")
    ELSE IF field \notin DOMAIN response.body.obj THEN Raise("KeyError", field)
    ELSE Return(response.body.obj[field])

\* response.json()
ResponseJson(response) ==
    IF response.body.kind # "json" THEN Raise("JSONDecodeError", "")
    ELSE Return(response.body.obj)

\* raise Kind(response.json()["message"])
RaiseWithMessage(kind, response) ==
    LET m == JsonField(response, "message")
    IN  IF m.exc # NoExc THEN m ELSE Raise(kind, m.value)

\* pydantic model_validate of a Success subclass: `success` is required, and
\* `data` where the subclass declares it.
model_validate(obj, needsData) ==
    IF "success" \notin DOMAIN obj THEN Raise("ValidationError", "success")
    ELSE IF needsData /\ "data" \notin DOMAIN obj THEN Raise("ValidationError", "data")
    ELSE Return(obj)

\* ---------------------------------------------------------------- adapter
Bearer(token) == "Bearer " \o Fmt(token)

IagonAdapter(token) ==
    [token |-> token,
     auth_header |-> [Authorization |-> Bearer(token)],
     json_header |-> [Authorization |-> Bearer(token),
                      ContentType |-> "application/json"]]

url == "https://gw.v109.iagon.com/api/v2"

Request(method, path, headers, data) ==
    [method |-> method, url |-> url \o path, headers |-> headers, data |-> data]

NoHeaders == [Accept |-> "*/*"]


\* ------------------------------------------------------- handle_response
\* handle_response without its branch for 409.
handle_response_no_conflict(response) ==
    IF response.status = codes.bad
      THEN RaiseWithMessage("BadRequestError", response)
    ELSE IF response.status = codes.unauthorized
      THEN RaiseWithMessage("NotAuthenticatedError", response)
    ELSE IF response.status = codes.not_found
      THEN RaiseWithMessage("NotFoundError", response)
    ELSE IF response.status # codes.ok
      THEN Raise("BadRequestError", <<"Error", response.status, response.body>>)
    ELSE ResponseJson(response)

handle_response(response) ==
    IF response.status = codes.bad
      THEN RaiseWithMessage("BadRequestError", response)
    ELSE IF response.status = codes.unauthorized
      THEN RaiseWithMessage("NotAuthenticatedError", response)
    ELSE IF response.status = codes.not_found
      THEN RaiseWithMessage("NotFoundError", response)
    ELSE IF response.status = codes.conflict
      THEN Raise("DirectoryExistsError", response.body)
    ELSE IF response.status # codes.ok
      THEN Raise("BadRequestError", <<"Error", response.status, response.body>>)
    ELSE ResponseJson(response)

\* handle_response, then Model.model_validate(response).
Validated(response, needsData) ==
    LET r == handle_response(response)
    IN  IF r.exc # NoExc THEN r ELSE model_validate(r.value, needsData)

\* ------------------------------------------------------------- handshake
\* Address(...).to_cbor_hex()[4:] of the keys derived from the seed, and
\* pycardano.sign(message, stake_key, attach_cose_key=True): opaque here.
AddressOf(seed) == "addr(" \o seed \o ")"
sign(message, seed) ==
    [signature |-> "sig(" \o message \o "," \o seed \o ")",
     key |-> "key(" \o seed \o ")"]

nonce_request(address) ==
    Request("POST", "/public/nonce", NoHeaders, [publicAddress |-> address])

\* The status check shared by nonce and verify.
handshake_result(response, field) ==
    IF response.status # codes.ok
      THEN RaiseWithMessage("BadRequestError", response)
      ELSE JsonField(response, field)

nonce_result(response) == handshake_result(response, "nonce")

verify_request(address, signature, key) ==
    Request("POST", "/public/verify", NoHeaders,
            [publicAddress |-> address, signature |-> signature, key |-> key])

verify_result(response) == handshake_result(response, "session")

\* ------------------------------------------------------ resource requests
check_auth_request(self) ==
    Request("POST", "/public/checkauth", self.auth_header, None)

\* return Success.model_validate(response).success
check_auth_result(response) ==
    LET v == Validated(response, FALSE)
    IN  IF v.exc # NoExc THEN v ELSE Return(v.value.success)

disconnect_request(self) ==
    Request("POST", "/public/disconnect", self.auth_header, None)

disconnect_result(response) ==
    LET r == handle_response(response)
    IN  IF r.exc # NoExc THEN r ELSE Return(None)

\* A create request that leaves the parent out.
create_directory_request_at_root(self, name, parent_id) ==
    Request("POST", "/storage/directory/create", self.json_header,
            Json([directory_name |-> name, parent_directory_id |-> None]))

create_directory_request(self, name, parent_id) ==
    Request("POST", "/storage/directory/create", self.json_header,
            Json([directory_name |-> name, parent_directory_id |-> parent_id]))

\* return CreateDirectorySuccess.model_validate(response).data
create_directory_result(response) ==
    LET v == Validated(response, TRUE)
    IN  IF v.exc # NoExc THEN v ELSE Return(v.value.data)

\* dict.update(key=value)
Update(d, k, v) == [x \in DOMAIN d \cup {k} |-> IF x = k THEN v ELSE d[x]]

\* Upload parameters that always carry the default password.
upload_data_default_password(file_name, private, password, dir_id, region_id) ==
    LET visibility == IF private THEN "private" ELSE "public"
        data == [filename |-> file_name, password |-> "default",
                 visibility |-> visibility]
        d1 == IF dir_id # None THEN Update(data, "directoryId", dir_id) ELSE data
    IN  IF region_id # None THEN Update(d1, "regionId", region_id) ELSE d1

upload_data(file_name, private, password, dir_id, region_id) ==
    LET visibility == IF private THEN "private" ELSE "public"
        data == [filename |-> file_name, password |-> password,
                 visibility |-> visibility]
        d1 == IF dir_id # None THEN Update(data, "directoryId", dir_id) ELSE data
    IN  IF region_id # None THEN Update(d1, "regionId", region_id) ELSE d1

upload_request(self, file_name, file, private, password, dir_id, region_id) ==
    [method |-> "POST", url |-> url \o "/storage/upload/",
     headers |-> self.auth_header,
     data |-> upload_data(file_name, private, password, dir_id, region_id),
     files |-> [file |-> <<file_name, file>>]]

\* return CreateFileSuccess.model_validate(response).data
upload_result(response) ==
    LET v == Validated(response, TRUE)
    IN  IF v.exc # NoExc THEN v ELSE Return(v.value.data)

download_request(self, file_id, password) ==
    Request("POST", "/storage/download/", self.auth_header,
            [id |-> file_id, password |-> password])

\* A download that sends its response through handle_response first.
download_result_checked(response) ==
    LET r == handle_response(response)
    IN  IF r.exc # NoExc /\ response.status # codes.ok THEN r
        ELSE Return(response.body)

\* return raw_response.content
download_result(response) == Return(response.body)

\* "/".join(path)
RECURSIVE Join(_)
Join(path) ==
    IF path = <<>> THEN ""
    ELSE IF Len(path) = 1 THEN path[1]
    ELSE path[1] \o "/" \o Join(Tail(path))

lsdir_path(path, private) ==
    LET permission == IF private THEN "private" ELSE "public"
    IN  IF path.isNone
          THEN "/storage/list/" \o permission
          ELSE "/storage/directory/" \o Join(path.list) \o "/list"

lsdir_request(self, path, private) ==
    Request("GET", lsdir_path(path, private), self.json_header, None)

\* return ListSuccess.model_validate(response)
lsdir_result(response) == Validated(response, TRUE)

delete_directory_request(self, dir_id) ==
    Request("DELETE", "/storage/directory/" \o Fmt(dir_id), self.json_header, None)

\* return Success.model_validate(response)
delete_directory_result(response) == Validated(response, FALSE)


\* What each call makes of the response it gets.
ResultOf(op, response) ==
    CASE op = "handle_response" -> handle_response(response)
      [] op = "nonce" -> nonce_result(response)
      [] op = "verify" -> verify_result(response)
      [] op = "check_auth" -> check_auth_result(response)
      [] op = "disconnect" -> disconnect_result(response)
      [] op = "create_directory" -> create_directory_result(response)
      [] op = "upload" -> upload_result(response)
      [] op = "download" -> download_result(response)
      [] op = "lsdir" -> lsdir_result(response)
      [] op = "delete_directory" -> delete_directory_result(response)

\* ------------------------------------------------------ the remote service
\* What the service holds: the nonce pending for the wallet address, the tokens
\* it issued and has not invalidated, the directories and the files.
SvcInit ==
    [nonce |-> None, nNonce |-> 0, tokens |-> {}, nTok |-> 0,
     dirs |-> {}, nDir |-> 0, files |-> {}, nFile |-> 0]

Ok(obj) == [status |-> 200, body |-> Json(obj)]
Err(status, msg) ==
    [status |-> status, body |-> Json([success |-> FALSE, message |-> msg])]

Authorized(svc, req) ==
    /\ "Authorization" \in DOMAIN req.headers
    /\ \E t \in svc.tokens : req.headers.Authorization = Bearer(t)

DirExists(svc, id) == \E d \in svc.dirs : d.id = id

\* The directories below the directories of S, S included.
RECURSIVE Below(_, _)
Below(dirs, S) ==
    LET T == S \cup {d.id : d \in {e \in dirs : e.parent_directory_id \in S}}
    IN  IF T = S THEN S ELSE Below(dirs, T)

\* A path names a directory when each id exists and lies in the one before it.
IsChain(svc, p) ==
    /\ Len(p) >= 1
    /\ \A i \in 1 .. Len(p) : DirExists(svc, p[i])
    /\ \A i \in 2 .. Len(p) :
          \E d \in svc.dirs : d.id = p[i] /\ d.parent_directory_id = p[i - 1]

SvcPaths(svc) ==
    LET ids == {d.id : d \in svc.dirs}
    IN  {q \in {<<d>> : d \in ids} \cup {<<d, e>> : d \in ids, e \in ids} :
            IsChain(svc, q)}

Listing(svc, parent, withDirs, visibilities) ==
    [files |-> {[id |-> f.id, name |-> f.name] :
                   f \in {g \in svc.files : /\ g.dir = parent
                                            /\ g.visibility \in visibilities}},
     directories |-> IF withDirs
                       THEN {d \in svc.dirs : d.parent_directory_id = parent}
                       ELSE {}]

SvcNonce(svc, req) ==
    LET n == "n" \o ToString(svc.nNonce + 1)
    IN  [resp |-> Ok([nonce |-> n]),
         svc |-> [svc EXCEPT !.nonce = n, !.nNonce = @ + 1]]

SvcVerify(svc, req) ==
    LET good == /\ svc.nonce # None
                /\ \E sd \in {Seed} :
                      /\ req.data.publicAddress = AddressOf(sd)
                      /\ req.data.signature = sign(svc.nonce, sd).signature
                      /\ req.data.key = sign(svc.nonce, sd).key
        t == TokenOf(svc.nTok + 1)
    IN  IF good
          THEN [resp |-> Ok([session |-> t]),
                svc |-> [svc EXCEPT !.nonce = None, !.tokens = @ \cup {t},
                                    !.nTok = @ + 1]]
          ELSE [resp |-> Err(400, "invalid signature"), svc |-> svc]

SvcCheckAuth(svc, req) ==
    [resp |-> Ok([success |-> TRUE]), svc |-> svc]

SvcDisconnect(svc, req) ==
    [resp |-> Ok([success |-> TRUE]),
     svc |-> [svc EXCEPT !.tokens =
                 {t \in @ : req.headers.Authorization # Bearer(t)}]]

SvcCreateDirectory(svc, req) ==
    LET name == req.data.obj.directory_name
        parent == req.data.obj.parent_directory_id
        d == [id |-> DirIdOf(svc.nDir + 1), directory_name |-> name,
              parent_directory_id |-> parent]
    IN  IF parent # None /\ ~DirExists(svc, parent)
          THEN [resp |-> Err(404, "no such directory"), svc |-> svc]
        ELSE IF \E e \in svc.dirs : /\ e.directory_name = name
                                    /\ e.parent_directory_id = parent
          THEN [resp |-> Err(409, "directory exists"), svc |-> svc]
        ELSE [resp |-> Ok([success |-> TRUE, data |-> d]),
              svc |-> [svc EXCEPT !.dirs = @ \cup {d}, !.nDir = @ + 1]]

SvcUpload(svc, req) ==
    LET dir == IF "directoryId" \in DOMAIN req.data
                 THEN req.data.directoryId ELSE None
        f == [id |-> FileIdOf(svc.nFile + 1), name |-> req.data.filename,
              content |-> req.files.file[2], password |-> req.data.password,
              visibility |-> req.data.visibility, dir |-> dir]
    IN  IF dir # None /\ ~DirExists(svc, dir)
          THEN [resp |-> Err(404, "no such directory"), svc |-> svc]
          ELSE [resp |-> Ok([success |-> TRUE, data |-> [id |-> f.id]]),
                svc |-> [svc EXCEPT !.files = @ \cup {f}, !.nFile = @ + 1]]

\* A wrong password decrypts to garbage, with status 200.
SvcDownload(svc, req) ==
    LET hit == {f \in svc.files : f.id = req.data.id}
    IN  IF hit = {} THEN [resp |-> Err(404, "no such file"), svc |-> svc]
        ELSE LET f == CHOOSE g \in hit : TRUE
             IN  [resp |-> [status |-> 200,
                            body |-> IF f.password = req.data.password
                                       THEN f.content ELSE Raw("garbage")],
                  svc |-> svc]

SvcListRoot(svc, permission) ==
    [resp |-> Ok([success |-> TRUE,
                  data |-> Listing(svc, None, permission = "private",
                                   {permission})]),
     svc |-> svc]

SvcListDirectory(svc, req) ==
    LET hit == {q \in SvcPaths(svc) :
                  req.url = url \o "/storage/directory/" \o Join(q) \o "/list"}
    IN  IF hit = {} THEN [resp |-> Err(404, "no such directory"), svc |-> svc]
        ELSE LET q == CHOOSE r \in hit : TRUE
             IN  [resp |-> Ok([success |-> TRUE,
                               data |-> Listing(svc, q[Len(q)], TRUE,
                                                {"private", "public"})]),
                  svc |-> svc]

\* Deletion removes the directory, the directories below it and their files.
SvcDeleteDirectory(svc, req) ==
    LET hit == {d.id : d \in {e \in svc.dirs :
                  req.url = url \o "/storage/directory/" \o e.id}}
        gone == Below(svc.dirs, hit)
    IN  IF hit = {} THEN [resp |-> Err(404, "no such directory"), svc |-> svc]
        ELSE [resp |-> Ok([success |-> TRUE, message |-> "deleted"]),
              svc |-> [svc EXCEPT !.dirs = {d \in @ : d.id \notin gone},
                                  !.files = {f \in @ : f.dir \notin gone}]]

\* The answer the service gives when it works.
Serve(svc, req) ==
    IF req.url = url \o "/public/nonce" THEN SvcNonce(svc, req)
    ELSE IF req.url = url \o "/public/verify" THEN SvcVerify(svc, req)
    ELSE IF ~Authorized(svc, req)
      THEN [resp |-> Err(401, "not authenticated"), svc |-> svc]
    ELSE IF req.url = url \o "/public/checkauth" THEN SvcCheckAuth(svc, req)
    ELSE IF req.url = url \o "/public/disconnect" THEN SvcDisconnect(svc, req)
    ELSE IF req.url = url \o "/storage/directory/create"
      THEN SvcCreateDirectory(svc, req)
    ELSE IF req.url = url \o "/storage/upload/" THEN SvcUpload(svc, req)
    ELSE IF req.url = url \o "/storage/download/" THEN SvcDownload(svc, req)
    ELSE IF req.url = url \o "/storage/list/private"
      THEN SvcListRoot(svc, "private")
    ELSE IF req.url = url \o "/storage/list/public"
      THEN SvcListRoot(svc, "public")
    ELSE IF req.method = "GET" THEN SvcListDirectory(svc, req)
    ELSE SvcDeleteDirectory(svc, req)

\* The answers of a service, gateway or network that fails, whatever was asked:
\* a gateway's error page, and a rejection in the service's own JSON form.
Faults == {[status |-> 500, body |-> Raw("<html>fault</html>")],
           [status |-> 400, body |-> Json([success |-> FALSE, message |-> "fault"])]}

\* No answer within the timeout: requests raises before any handler runs.
TimedOut == [status |-> 0, body |-> Raw("")]

\* Every outcome of sending req: the service's answer with its effect, or a
\* fault or a timeout that leaves the service as it was.
Service(svc, req) ==
    {Serve(svc, req)} \cup {[resp |-> r, svc |-> svc] : r \in Faults \cup {TimedOut}}


\* ------------------------------------------------------------------- state
VARIABLES
    sess,       \* per call of IagonAdapter.session: where the generator stands
    adapters,   \* the IagonAdapter objects that exist, by adapter id
    svc,        \* the remote service
    last,       \* the call that finished last: what was sent, answered, returned
    created,    \* per directory create_directory has returned: id, name and
                \* parent as the caller gave them
    deleted,    \* the directory ids delete_directory has succeeded on
    uploaded    \* per file id upload has returned: the bytes and password sent

vars == <<sess, adapters, svc, last, created, deleted, uploaded>>

NoArgs == [none |-> TRUE]

Step(step, status) == [step |-> step, status |-> status]

Init ==
    /\ sess = [s \in Sessions |-> [pc |-> "start", nonce |-> None,
                                   trace |-> <<>>, err |-> NoExc]]
    /\ adapters = <<>>
    /\ svc = SvcInit
    /\ last = [op |-> "none", who |-> 0, scope |-> "none", args |-> NoArgs,
               method |-> "", url |-> "", headers |-> NoHeaders,
               resp |-> TimedOut, result |-> Return(None)]
    /\ created = {}
    /\ deleted = {}
    /\ uploaded = {}

\* requests.post/get/delete(..., timeout=10) and the method's handling of the
\* response: every outcome, with the state the service is left in.
Outcomes(op, req) ==
    {[resp |-> o.resp, svc |-> o.svc,
      result |-> IF o.resp = TimedOut THEN Raise("Timeout", "")
                 ELSE ResultOf(op, o.resp)] : o \in Service(svc, req)}

Finished(op, who, scope, args, req, o) ==
    [op |-> op, who |-> who, scope |-> scope, args |-> args,
     method |-> req.method, url |-> req.url, headers |-> req.headers,
     resp |-> o.resp, result |-> o.result]

AddAdapter(a, adapter) ==
    [x \in DOMAIN adapters \cup {a} |-> IF x = a THEN adapter ELSE adapters[x]]

\* Where the caller of adapter a stands: inside the session's block, after it,
\* or holding an adapter it constructed itself.
ScopeOf(a) == IF a \in Sessions THEN sess[a].pc ELSE "direct"

\* ------------------------------------------------------- IagonAdapter.session
\* session(seed) up to the first request: derive the address, cls.nonce(address).
SessionNonce(s) ==
    /\ sess[s].pc = "start"
    /\ LET req == nonce_request(AddressOf(Seed))
       IN  \E o \in Outcomes("nonce", req) :
             /\ svc' = o.svc
             /\ last' = Finished("nonce", s, "handshake", NoArgs, req, o)
             /\ sess' = [sess EXCEPT ![s] =
                   IF o.result.exc = NoExc
                     THEN [@ EXCEPT !.pc = "nonced", !.nonce = o.result.value,
                              !.trace = Append(@, Step("nonce", o.resp.status))]
                     ELSE [@ EXCEPT !.pc = "failed", !.err = o.result.exc,
                              !.trace = Append(@, Step("nonce", o.resp.status))]]
    /\ UNCHANGED <<adapters, created, deleted, uploaded>>

\* session(seed) from the nonce on: sign it, cls.verify(...), IagonAdapter(token),
\* yield adapter.
SessionVerify(s) ==
    /\ sess[s].pc = "nonced"
    /\ LET signed_nonce == sign(sess[s].nonce, Seed)
           req == verify_request(AddressOf(Seed), signed_nonce.signature,
                                 signed_nonce.key)
           signedStep == Step("sign", 0)
       IN  \E o \in Outcomes("verify", req) :
             /\ svc' = o.svc
             /\ last' = Finished("verify", s, "handshake", NoArgs, req, o)
             /\ IF o.result.exc = NoExc
                  THEN /\ adapters' = AddAdapter(s, IagonAdapter(o.result.value))
                       /\ sess' = [sess EXCEPT ![s].pc = "in_block",
                             ![s].trace = @ \o <<signedStep,
                                  Step("verify", o.resp.status), Step("yield", 0)>>]
                  ELSE /\ adapters' = adapters
                       /\ sess' = [sess EXCEPT ![s].pc = "failed",
                             ![s].err = o.result.exc,
                             ![s].trace = @ \o <<signedStep,
                                  Step("verify", o.resp.status)>>]
    /\ UNCHANGED <<created, deleted, uploaded>>

\* The with block ends, by falling off its end or by an exception thrown into the
\* generator at the yield; nothing follows the yield, and the caller keeps the
\* adapter it was given.
SessionExit(s, how) ==
    /\ sess[s].pc = "in_block"
    /\ sess' = [sess EXCEPT ![s].pc = "exited", ![s].err = how,
                            ![s].trace = Append(@, Step("exit", 0))]
    /\ UNCHANGED <<adapters, svc, last, created, deleted, uploaded>>

\* IagonAdapter(token) called directly: token is any string, or None by default.
Construct(token) ==
    /\ 0 \notin DOMAIN adapters
    /\ adapters' = AddAdapter(0, IagonAdapter(token))
    /\ UNCHANGED <<sess, svc, last, created, deleted, uploaded>>

\* ------------------------------------------------------------- operations
check_auth(a) ==
    /\ a \in DOMAIN adapters
    /\ LET req == check_auth_request(adapters[a])
       IN  \E o \in Outcomes("check_auth", req) :
             /\ svc' = o.svc
             /\ last' = Finished("check_auth", a, ScopeOf(a), NoArgs, req, o)
    /\ UNCHANGED <<sess, adapters, created, deleted, uploaded>>

\* disconnect's request and the handling of its answer.
disconnect_call(a) ==
    /\ a \in DOMAIN adapters
    /\ LET req == disconnect_request(adapters[a])
       IN  \E o \in Outcomes("disconnect", req) :
             /\ svc' = o.svc
             /\ last' = Finished("disconnect", a, ScopeOf(a), NoArgs, req, o)
    /\ UNCHANGED <<sess, created, deleted, uploaded>>

\* A disconnect that also drops the adapter's token.
disconnect_forgets(a) ==
    /\ disconnect_call(a)
    /\ adapters' = [adapters EXCEPT ![a] = IagonAdapter(None)]

disconnect(a) ==
    /\ disconnect_call(a)
    /\ UNCHANGED adapters

create_directory(a, name, parent_id) ==
    /\ a \in DOMAIN adapters
    /\ svc.nDir < MaxDirs
    /\ LET req == create_directory_request(adapters[a], name, parent_id)
       IN  \E o \in Outcomes("create_directory", req) :
             /\ svc' = o.svc
             /\ last' = Finished("create_directory", a, ScopeOf(a), NoArgs, req, o)
             /\ created' = IF o.result.exc = NoExc
                             THEN created \cup
                                  {[id |-> o.result.value.id, name |-> name,
                                    parent_id |-> parent_id]}
                             ELSE created
    /\ UNCHANGED <<sess, adapters, deleted, uploaded>>

upload(a, file_name, file, private, password, dir_id, region_id) ==
    /\ a \in DOMAIN adapters
    /\ svc.nFile < MaxFiles
    /\ LET req == upload_request(adapters[a], file_name, file, private, password,
                                 dir_id, region_id)
       IN  \E o \in Outcomes("upload", req) :
             /\ svc' = o.svc
             /\ last' = Finished("upload", a, ScopeOf(a), NoArgs, req, o)
             /\ uploaded' = IF o.result.exc = NoExc
                              THEN uploaded \cup
                                   {[file_id |-> o.result.value.id, file |-> file,
                                     password |-> password]}
                              ELSE uploaded
    /\ UNCHANGED <<sess, adapters, created, deleted>>

download(a, file_id, password) ==
    /\ a \in DOMAIN adapters
    /\ LET req == download_request(adapters[a], file_id, password)
       IN  \E o \in Outcomes("download", req) :
             /\ svc' = o.svc
             /\ last' = Finished("download", a, ScopeOf(a),
                                 [file_id |-> file_id, password |-> password],
                                 req, o)
    /\ UNCHANGED <<sess, adapters, created, deleted, uploaded>>

lsdir(a, path, private) ==
    /\ a \in DOMAIN adapters
    /\ LET req == lsdir_request(adapters[a], path, private)
       IN  \E o \in Outcomes("lsdir", req) :
             /\ svc' = o.svc
             /\ last' = Finished("lsdir", a, ScopeOf(a),
                                 [path |-> path, private |-> private], req, o)
    /\ UNCHANGED <<sess, adapters, created, deleted, uploaded>>

delete_directory(a, dir_id) ==
    /\ a \in DOMAIN adapters
    /\ LET req == delete_directory_request(adapters[a], dir_id)
       IN  \E o \in Outcomes("delete_directory", req) :
             /\ svc' = o.svc
             /\ last' = Finished("delete_directory", a, ScopeOf(a), NoArgs, req, o)
             /\ deleted' = IF o.result.exc = NoExc
                             THEN deleted \cup {dir_id} ELSE deleted
    /\ UNCHANGED <<sess, adapters, created, uploaded>>

\* One session and one directly constructed adapter: every operation with its
\* default arguments, inside the session's block and after it, and lsdir with
\* every shape of path.
Next ==
    \/ SessionNonce(1)
    \/ SessionVerify(1)
    \/ \E how \in {NoExc, "Exception"} : SessionExit(1, how)
    \/ \E token \in {None, ForgedToken} : Construct(token)
    \/ \E a \in {0, 1} : check_auth(a)
    \/ \E a \in {0, 1} : disconnect(a)
    \/ \E a \in {0, 1} : create_directory(a, "X", None)
    \/ \E a \in {0, 1} :
          upload(a, "test.txt", Raw("hello world!"), TRUE, "default", None, None)
    \/ \E a \in {0, 1}, file_id \in FileArgs : download(a, file_id, "default")
    \/ \E a \in {0, 1}, path \in {NoList, List(<<>>), List(<<DirIdOf(1)>>)},
          private \in BOOLEAN : lsdir(a, path, private)
    \/ \E a \in {0, 1} : delete_directory(a, DirIdOf(1))

Spec == Init /\ [][Next]_vars

\* Concurrent calls of session with one seed, and nothing else.
NextHandshake ==
    \/ \E s \in Sessions : SessionNonce(s)
    \/ \E s \in Sessions : SessionVerify(s)
    \/ \E s \in Sessions, how \in {NoExc, "Exception"} : SessionExit(s, how)

SpecHandshake == Init /\ [][NextHandshake]_vars

\* Inside one session's block, the wallet's directories: created under any
\* parent, listed by any path, deleted.
NextDirs ==
    \/ SessionNonce(1)
    \/ SessionVerify(1)
    \/ \E name \in DirNames, parent_id \in DirArgs :
          create_directory(1, name, parent_id)
    \/ \E path \in PathArgs, private \in BOOLEAN : lsdir(1, path, private)
    \/ \E dir_id \in DirIds \cup {"nodir"} : delete_directory(1, dir_id)

SpecDirs == Init /\ [][NextDirs]_vars

\* Inside one session's block, the wallet's files: uploaded with any content,
\* password and options, downloaded with any password, and removed with their
\* directory.
NextFiles ==
    \/ SessionNonce(1)
    \/ SessionVerify(1)
    \/ create_directory(1, "X", None)
    \/ \E file_name \in FileNames, file \in Contents, password \in Passwords,
          opt \in UploadOptions :
          upload(1, file_name, file, opt[1], password, opt[2], opt[3])
    \/ \E file_id \in FileArgs, password \in Passwords :
          download(1, file_id, password)
    \/ \E dir_id \in DirIds : delete_directory(1, dir_id)

SpecFiles == Init /\ [][NextFiles]_vars

\* ------------------------------------------------- the handlers on their own
\* Every method's handling of a response, applied to responses of every status
\* and body shape.
DecoderStatuses == {200, 201, 302, 400, 401, 403, 404, 409, 500, 502, 503}
DecoderBodies ==
    {Json([message |-> "m"]),
     Json([message |-> "m", success |-> FALSE, detail |-> "more"]),
     Json([error |-> "e"]),
     Json([success |-> TRUE]),
     Json([success |-> TRUE, message |-> "m", data |-> [id |-> "f1"]]),
     Raw("<html>fault</html>")}
DecoderOps == {"handle_response", "nonce", "verify", "check_auth", "disconnect",
               "create_directory", "upload", "download", "lsdir",
               "delete_directory"}

InitDecoder ==
    /\ sess = [s \in Sessions |-> [pc |-> "start", nonce |-> None,
                                   trace |-> <<>>, err |-> NoExc]]
    /\ adapters = <<>>
    /\ svc = SvcInit
    /\ \E st \in DecoderStatuses, b \in DecoderBodies :
          last = [op |-> "none", who |-> 0, scope |-> "none", args |-> NoArgs,
                  method |-> "", url |-> "", headers |-> NoHeaders,
                  resp |-> [status |-> st, body |-> b], result |-> Return(None)]
    /\ created = {}
    /\ deleted = {}
    /\ uploaded = {}

Decode(op) ==
    /\ last.op = "none"
    /\ last' = [last EXCEPT !.op = op, !.result = ResultOf(op, last.resp)]
    /\ UNCHANGED <<sess, adapters, svc, created, deleted, uploaded>>

NextDecoder == \E op \in DecoderOps : Decode(op)

SpecDecoder == InitDecoder /\ [][NextDecoder]_vars


\* ================================================================ properties
\* The operations that send their response through handle_response.
HandledOps == {"handle_response", "check_auth", "disconnect", "create_directory",
               "upload", "lsdir", "delete_directory"}
\* The operations on files and directories.
ResourceOps == {"create_directory", "upload", "download", "lsdir",
                "delete_directory"}
MappedStatuses == {400, 401, 404, 409}
ErrorKindOf(status) ==
    CASE status = 400 -> "BadRequestError"
      [] status = 401 -> "NotAuthenticatedError"
      [] status = 404 -> "NotFoundError"
      [] status = 409 -> "DirectoryExistsError"
HasMessage(body) == body.kind = "json" /\ "message" \in DOMAIN body.obj
DecoderKinds == {"BadRequestError", "NotAuthenticatedError", "NotFoundError",
                 "DirectoryExistsError", "InternalServerError"}

\* C1: a response with status 400, 401, 404 or 409 whose body is JSON with a
\* message field makes handle_response, and every operation that uses it, fail
\* with the error kind of that status, whatever else the body holds; no payload
\* is returned.
C1_ErrorKinds ==
    (/\ last.op \in HandledOps
     /\ last.resp.status \in MappedStatuses
     /\ HasMessage(last.resp.body))
    => /\ last.result.exc = ErrorKindOf(last.resp.status)
       /\ last.result.exc # NoExc

C1_Witness ==
    /\ last.op = "create_directory"
    /\ last.resp.status = 409
    /\ last.resp.body = Json([message |-> "m", success |-> FALSE, detail |-> "more"])
    /\ last.result.exc = "DirectoryExistsError"

\* C2: a response whose status is none of 200, 400, 401, 404, 409 makes
\* handle_response fail with InternalServerError, carrying the status code and
\* the body text.
C2_InternalError ==
    (/\ last.op \in HandledOps
     /\ last.resp.status \notin MappedStatuses \cup {200})
    => last.result = Raise("InternalServerError",
                           <<"Error", last.resp.status, last.resp.body>>)

\* The steps a session has taken, in order.
StepsOf(s) == [i \in 1 .. Len(sess[s].trace) |-> sess[s].trace[i].step]
IsPrefix(p, q) == Len(p) <= Len(q) /\ \A i \in 1 .. Len(p) : p[i] = q[i]
\* A request that was answered, with a status other than 200.
Refused(step) == step.status \notin {200, 0}

\* The order of the handshake alone: nonce, sign, verify, yield, each only after
\* the one before it succeeded, and no adapter before the yield.
HandshakeOrdered ==
    \A s \in Sessions :
       LET t == sess[s].trace
       IN  /\ IsPrefix(StepsOf(s), <<"nonce", "sign", "verify", "yield", "exit">>)
           /\ Len(t) >= 2 => t[1].status = 200
           /\ Len(t) >= 4 => t[3].status = 200
           /\ s \in DOMAIN adapters <=> Len(t) >= 4

\* C3: the handshake runs nonce, sign, verify, yield in this order, each step
\* only after the one before it succeeded; a nonce or verify request answered
\* with a status other than 200 fails the handshake with BadRequestError, and
\* then no later step runs and the block is never entered.
C3_HandshakeOrder ==
    /\ HandshakeOrdered
    /\ \A s \in Sessions :
          LET t == sess[s].trace
          IN  \A i \in {1, 3} :
                (Len(t) >= i /\ Refused(t[i]))
                => /\ Len(t) = i
                   /\ sess[s].pc = "failed"
                   /\ sess[s].err = "BadRequestError"

\* C4: once a session's block has ended, normally or by an exception, the
\* session's token is discarded: the adapter no longer holds it, and no request
\* sent after the exit carries it.
C4_ReleasedOnExit ==
    \A s \in Sessions :
       sess[s].pc = "exited"
       => /\ s \in DOMAIN adapters => adapters[s].token = None
          /\ ~(/\ last.who = s
               /\ last.scope = "exited"
               /\ \E t \in svc.tokens : last.headers.Authorization = Bearer(t))

\* C5: no step changes an existing adapter's token, and its auth_header and
\* json_header carry Bearer <that token> after every step, whichever operations
\* ran and whether they succeeded or failed.
C5_TokenFixed ==
    [][\A a \in DOMAIN adapters :
          /\ a \in DOMAIN adapters'
          /\ adapters'[a].token = adapters[a].token
          /\ adapters'[a].auth_header.Authorization = Bearer(adapters[a].token)
          /\ adapters'[a].json_header.Authorization = Bearer(adapters[a].token)
          /\ adapters'[a].json_header.ContentType = "application/json"]_vars

C5_Witness ==
    /\ last.op = "disconnect"
    /\ last.who = 1
    /\ last.resp.status = 200
    /\ adapters[1].token = TokenOf(1)
    /\ adapters[1].auth_header.Authorization = "Bearer t1"

\* The tokens the verify step has returned.
Issued == {TokenOf(n) : n \in 1 .. svc.nTok}

\* C6: every adapter holds a token that a successful verify returned, and every
\* create_directory, upload, download, lsdir and delete_directory request is
\* sent with such a token.
C6_LiveSession ==
    /\ \A a \in DOMAIN adapters : adapters[a].token \in Issued
    /\ last.op \in ResourceOps
       => \E t \in Issued : last.headers.Authorization = Bearer(t)

\* C7: download returns the body of the response as it is, for every status, and
\* never fails with one of handle_response's error kinds.
C7_DownloadVerbatim ==
    last.op = "download"
    => /\ last.result.exc \notin DecoderKinds
       /\ last.resp # TimedOut => last.result = Return(last.resp.body)

C7_Witness ==
    /\ last.op = "download"
    /\ last.resp.status = 401
    /\ last.result = Return(Json([success |-> FALSE, message |-> "not authenticated"]))

\* The uploads that returned the file id of the last download and were given
\* the password of that download.
MatchingUploads ==
    {u \in uploaded : /\ u.file_id = last.args.file_id
                      /\ u.password = last.args.password}

ListsParent(parent_id) ==
    /\ last.op = "lsdir"
    /\ last.result.exc = NoExc
    /\ IF last.args.path.isNone
         THEN last.args.private /\ parent_id = None
         ELSE last.args.path.list = <<parent_id>>
ListedNames == {d.directory_name : d \in last.result.value.data.directories}
CreatedIn(parent_id, name) ==
    {c \in created : c.parent_id = parent_id /\ c.name = name}

\* C9: a listing of a parent includes the name of every directory that
\* create_directory made in that parent and delete_directory has not removed,
\* and no name whose directories in that parent were all removed by
\* delete_directory.
C9_DirectoryLifecycle ==
    \A parent_id \in DirIds \cup {None}, name \in DirNames :
       (ListsParent(parent_id) /\ CreatedIn(parent_id, name) # {})
       => (name \in ListedNames
           <=> \E c \in CreatedIn(parent_id, name) : c.id \notin deleted)

C9_Witness ==
    /\ ListsParent(None)
    /\ \E c \in CreatedIn(None, "X") : c.id \notin deleted
    /\ "X" \in ListedNames
    /\ \E c \in CreatedIn(None, "Y") : c.id \in deleted
    /\ "Y" \notin ListedNames

\* C10: lsdir asks /storage/list/{private|public} when the path is empty, not
\* given or of no ids, and /storage/directory/{ids joined by /}/list otherwise.
C10_EndpointByEmptiness ==
    last.op = "lsdir"
    => LET empty == last.args.path.isNone \/ last.args.path.list = <<>>
       IN  /\ last.method = "GET"
           /\ last.url = url \o
                (IF empty
                   THEN "/storage/list/" \o
                        (IF last.args.private THEN "private" ELSE "public")
                   ELSE "/storage/directory/" \o Join(last.args.path.list) \o "/list")

====
